---- MODULE Spec2Model ----
\* Model of reconchess/scripts/rc_chess_replay.py: the replay script's
\* action-sequence builder, the navigation of ReplayWindow (the four go_*
\* methods, the buttons that trigger them, the automatic advance) and the
\* host loop of main().
EXTENDS Integers, Sequences, FiniteSets, TLC

\* ------------------------------------------------------------------ bounds
\* Largest number of turns one colour has in an enumerated history.
MaxTurns == 2
\* Last value of pygame.time.get_ticks() the model follows a run to.
MaxTime == 4
\* Largest --automatic_advance interval that is enumerated.
MaxInterval == 1
\* How many tiles beyond the window a probed screen coordinate may lie.
MaxOff == 1
\* Largest time that passes between two frames (clock.tick).
MaxDt == 2
\* How far below 0 / above N a directly called go_* method is followed.
MaxOver == 2

\* ------------------------------------------------------------ chess colours
WHITE == TRUE
BLACK == FALSE
Colors == {WHITE, BLACK}

\* Python's None for an Optional[int]: the empty tuple; an int i is <<i>>.
None == <<>>
At(i) == <<i>>
IsNone(v) == v = None
Val(v) == v[1]

\* --------------------------------------------------------------- variables
VARIABLES
    pc,                 \* where the host is: main / construct / update / draw / quit / crashed
    history,            \* the GameHistory handed to main / ReplayWindow
    automatic_advance,  \* args.automatic_advance: None or <<ms>>
    actions,            \* ReplayWindow.actions
    action_index,       \* ReplayWindow.action_index: None or <<i>>
    buttons,            \* buttons[k].enabled, k = 0..3 ('<<', '<', '>', '>>')
    is_down,            \* buttons[k].is_down
    last_advance,       \* ReplayWindow.last_advance
    ticks,              \* pygame.time.get_ticks()
    raised,             \* the exception the last operation raised, or "none"
    trace,              \* what the last operation did (observation only)
    resource,           \* the file at args.history_path, until it is read
    probe               \* argument and result of the last pure call observed

vars == <<pc, history, automatic_advance, actions, action_index, buttons,
          is_down, last_advance, ticks, raised, trace, resource, probe>>

\* ------------------------------------------------ GameHistory (reconchess)
\* A history keeps, per colour, the list of senses (one per turn) and the
\* list of moves; a stored move is "taken" (taken_move = requested_move) or
\* "rejected" (requested_move set, taken_move = None).
MoveKinds == {"taken", "rejected"}

Turn(color, n) == [color |-> color, turn_number |-> n]

\* Turn model: the linear order key, turn_number * 2 + colour as 0 or 1.
TurnKey(turn) == turn.turn_number * 2 + (IF turn.color = WHITE THEN 0 ELSE 1)

num_turns(h, color) == h.senses[color]

has_sense(h, turn) == turn.turn_number < h.senses[turn.color]

has_move(h, turn) == turn.turn_number < Len(h.moves[turn.color])

taken_move(h, turn) == h.moves[turn.color][turn.turn_number + 1]

\* GameHistory.turns(): every turn from white's turn 0 to the last one, in
\* the order of TurnKey.
turns(h) ==
    [k \in 1..(h.senses[WHITE] + h.senses[BLACK]) |->
        Turn((k - 1) % 2 = 0, (k - 1) \div 2)]

MoveLists == UNION {[1..n -> MoveKinds] : n \in 0..MaxTurns}

\* Well-formed: colours alternate starting with white, no colour has more
\* moves than turns, and only the last turn of the game may lack its move
\* (a game that ended before that side moved).
WellFormed(h) ==
    /\ h.senses[BLACK] \in {h.senses[WHITE], h.senses[WHITE] - 1}
    /\ \A c \in Colors : Len(h.moves[c]) <= h.senses[c]
    /\ \A k \in 1..(Len(turns(h)) - 1) : has_move(h, turns(h)[k])

Histories ==
    {h \in [senses : [Colors -> 0..MaxTurns], moves : [Colors -> MoveLists]] :
        WellFormed(h)}

EmptyHistory ==
    [senses |-> [c \in Colors |-> 0], moves |-> [c \in Colors |-> <<>>]]

\* ------------------------------------------------------------- pgn_loader
\* A move of a PGN mainline: whether board.is_capture(move) holds in the
\* position it is played in, and its to_square (d4 or e5 here).
PgnMoves == [capture : BOOLEAN, to_square : {27, 36}]

Games == UNION {[1..n -> PgnMoves] : n \in 0..(2 * MaxTurns)}

\* game.board() and board.push(move): the side to move and the moves played.
StartBoard == [turn |-> WHITE, played |-> <<>>]

push(board, move) ==
    [turn |-> ~board.turn, played |-> Append(board.played, move)]

\* board.fen(): stands for the position, which the moves played determine.
fen(board) == board.played

\* GameHistory(): the per-colour lists pgn_loader fills.
NewGameHistory ==
    [requested_moves |-> [c \in Colors |-> <<>>],
     taken_moves |-> [c \in Colors |-> <<>>],
     capture_squares |-> [c \in Colors |-> <<>>],
     fens_after_move |-> [c \in Colors |-> <<>>],
     senses |-> [c \in Colors |-> <<>>]]

store_move(h, color, requested, taken, capture_square) ==
    [h EXCEPT !.requested_moves[color] = Append(@, requested),
              !.taken_moves[color] = Append(@, taken),
              !.capture_squares[color] = Append(@, capture_square)]

store_fen_after_move(h, color, f) ==
    [h EXCEPT !.fens_after_move[color] = Append(@, f)]

\* capture_square without the test of board.is_capture(move).
CaptureSquareAlways(board, move) == At(move.to_square)

\* capture_square as the loop of pgn_loader sets it.
CaptureSquare(board, move) ==
    IF move.capture THEN At(move.to_square) ELSE None

\* for move in game.mainline_moves(): ...
RECURSIVE PgnLoop(_, _, _, _)
PgnLoop(h, board, moves, k) ==
    IF k > Len(moves) THEN h
    ELSE LET move == moves[k]
             h1 == store_move(h, board.turn, At(move), At(move),
                              CaptureSquare(board, move))
             board1 == push(board, move)
             h2 == store_fen_after_move(h1, ~board1.turn, fen(board1))
         IN  PgnLoop(h2, board1, moves, k + 1)

\* pgn_loader on a file that opens and holds a game: the history returned.
pgn_history(game) ==
    LET h == PgnLoop(NewGameHistory, StartBoard, game, 1)
    IN  [h EXCEPT !.senses =
            [c \in Colors |-> [i \in 1..Len(h.taken_moves[c]) |-> 1]]]

\* The loaded history as main and ReplayWindow read it: turns counted by the
\* senses, a move taken unless its taken_move is None.
AsHistory(h) ==
    [senses |-> [c \in Colors |-> Len(h.senses[c])],
     moves |-> [c \in Colors |->
        [i \in 1..Len(h.requested_moves[c]) |->
            IF IsNone(h.taken_moves[c][i]) THEN "rejected" ELSE "taken"]]]

\* The file at args.history_path: its kind (".pgn" or native), whether it
\* opens ("ok"), cannot be opened ("unopenable") or opens but holds no game
\* ("empty"), and what it holds.
Resource(state, kind, readable, h, game) ==
    [state |-> state, kind |-> kind, readable |-> readable, history |-> h,
     game |-> game]

NoResource == Resource("none", "none", "ok", EmptyHistory, <<>>)

Resources ==
    {Resource("file", "native", "ok", h, <<>>) : h \in Histories}
    \cup {Resource("file", "pgn", "ok", EmptyHistory, g) : g \in Games}
    \cup {Resource("file", k, r, EmptyHistory, <<>>) :
             k \in {"native", "pgn"}, r \in {"unopenable", "empty"}}

\* pgn_loader: OSError from open() is caught, a message is printed and the
\* function ends without a return statement (None); read_game gives None
\* for a file without a game and game.headers then raises AttributeError.
pgn_loader(file) ==
    CASE file.readable = "unopenable" ->
            [raised |-> "none", returned |-> "None", history |-> EmptyHistory]
      [] file.readable = "empty" ->
            [raised |-> "AttributeError", returned |-> "nothing",
             history |-> EmptyHistory]
      [] OTHER ->
            [raised |-> "none", returned |-> "history",
             history |-> AsHistory(pgn_history(file.game))]

\* GameHistory.from_file: an error of open() or of the decoding is let out.
from_file(file) ==
    CASE file.readable = "unopenable" ->
            [raised |-> "OSError", returned |-> "nothing", history |-> EmptyHistory]
      [] file.readable = "empty" ->
            [raised |-> "ValueError", returned |-> "nothing",
             history |-> EmptyHistory]
      [] OTHER ->
            [raised |-> "none", returned |-> "history", history |-> file.history]

\* main: history = pgn_loader(path) if path ends with '.pgn' else from_file.
load_history(file) ==
    IF file.kind = "pgn" THEN pgn_loader(file) ELSE from_file(file)

\* ------------------------------------------- ReplayWindow.__init__: actions
MoveAction(h, turn) ==
    [phase |-> "move", turn_number |-> turn.turn_number,
     turn_color |-> turn.color, taken_move |-> taken_move(h, turn)]

SenseAction(h, turn) ==
    [phase |-> "sense", turn_number |-> turn.turn_number,
     turn_color |-> turn.color, taken_move |-> "none"]

\* The body of the loop with the sense branch enabled (it is commented out
\* in the source).
TurnActionsWithSense(h, turn) ==
    (IF has_sense(h, turn) THEN <<SenseAction(h, turn)>> ELSE <<>>)
    \o (IF has_move(h, turn) THEN <<MoveAction(h, turn)>> ELSE <<>>)

\* The body of the loop over history.turns(): what one turn appends.
TurnActions(h, turn) ==
    IF has_move(h, turn) THEN <<MoveAction(h, turn)>> ELSE <<>>

RECURSIVE BuildFrom(_, _, _, _)
BuildFrom(h, ts, k, acc) ==
    IF k > Len(ts) THEN acc
    ELSE BuildFrom(h, ts, k + 1, acc \o TurnActions(h, ts[k]))

BuildActions(h) == BuildFrom(h, turns(h), 1, <<>>)

\* ------------------------------------------- ReplayWindow: coordinate mapper
\* self.square_size; width and height of the window (a strip of one tile
\* below the board holds the buttons and the turn information).
square_size == 80
width == square_size * 8
height == square_size * 9

Squares == 0..63

\* python-chess: square_file, square_rank and square(file, rank).
square_file(sq) == sq % 8
square_rank(sq) == sq \div 8
square(file, rank) == rank * 8 + file

\* square_to_coords with the test of the perspective inverted.
square_to_coords_flipped(sq, perspective) ==
    <<square_file(sq) * square_size,
      IF perspective = BLACK THEN (7 - square_rank(sq)) * square_size
      ELSE square_rank(sq) * square_size>>

square_to_coords(sq, perspective) ==
    <<square_file(sq) * square_size,
      IF perspective = WHITE THEN (7 - square_rank(sq)) * square_size
      ELSE square_rank(sq) * square_size>>

\* "//" is floor division, as \div is.
coords_to_square(x, y, perspective) ==
    square(x \div square_size,
           IF perspective = WHITE THEN (height - y) \div square_size
           ELSE y \div square_size)

square_rect(sq, perspective) ==
    <<square_to_coords(sq, perspective)[1], square_to_coords(sq, perspective)[2],
      square_size, square_size>>

\* text_coords_below; the offsets are given in hundredths of a tile.
text_coords_below(sq, perspective, horizontal_offset, vertical_offset) ==
    <<square_to_coords(sq, perspective)[1]
        + (horizontal_offset * square_size) \div 100,
      square_to_coords(sq, perspective)[2]
        + ((100 + vertical_offset) * square_size) \div 100>>

\* ------------------------------------------------- ReplayWindow: navigation
\* The operations work on a record w of the window's mutable fields:
\*   action_index, buttons (enabled flags), is_down, last_advance,
\*   raised (exception that ended the call), quit (quit() was called),
\*   clicked (buttons whose onclick ran, in order), auto (what the automatic
\*   advance did: "none", "step", "quit"), auto_from (the position it
\*   stepped from).
Btns == 0..3

go_to_beginning(w) ==
    [w EXCEPT !.action_index = None,
              !.buttons = [k \in Btns |-> k \in {2, 3}]]

go_to_end(w, n) ==
    [w EXCEPT !.action_index = At(n - 1),
              !.buttons = [k \in Btns |-> k \in {0, 1}]]

\* go_forwards that also drops the action it leaves behind.
go_forwards_consuming(w, n, now) ==
    LET i == IF IsNone(w.action_index) THEN 0 ELSE Val(w.action_index) + 1
    IN  [w EXCEPT !.action_index = At(i),
                  !.buttons = [k \in Btns |->
                                 IF k \in {0, 1} THEN TRUE ELSE i < n - 1],
                  !.last_advance = now,
                  !.actions = IF @ = <<>> THEN @ ELSE Tail(@)]

go_forwards(w, n, now) ==
    LET i == IF IsNone(w.action_index) THEN 0 ELSE Val(w.action_index) + 1
    IN  [w EXCEPT !.action_index = At(i),
                  !.buttons = [k \in Btns |->
                                 IF k \in {0, 1} THEN TRUE ELSE i < n - 1],
                  !.last_advance = now]

\* "self.action_index -= 1" on None raises TypeError before any assignment.
go_backwards(w) ==
    IF IsNone(w.action_index)
    THEN [w EXCEPT !.raised = "TypeError"]
    ELSE LET ni == IF Val(w.action_index) = 0 THEN None
                   ELSE At(Val(w.action_index) - 1)
         IN  [w EXCEPT !.action_index = ni,
                       !.buttons = [k \in Btns |->
                                      IF k \in {0, 1} THEN ~IsNone(ni) ELSE TRUE]]

\* The onclick the constructor gives button k.
onclick(k, w, n, now) ==
    CASE k = 0 -> go_to_beginning(w)
      [] k = 1 -> go_backwards(w)
      [] k = 2 -> go_forwards(w, n, now)
      [] k = 3 -> go_to_end(w, n)

\* ------------------------------------------------------------------ Button
\* The square under which the constructor puts button k: c1, d1, e1, f1.
ButtonSquare(k) == 2 + k

\* Button.rect of button k: x, y = text_coords_below(square,
\* vertical_offset = 0.20), width square_size / 2, height square_size / 4.
ButtonRect(k) ==
    <<text_coords_below(ButtonSquare(k), WHITE, 25, 20)[1],
      text_coords_below(ButtonSquare(k), WHITE, 25, 20)[2],
      square_size \div 2, square_size \div 4>>

\* Mouse positions: a point inside each button, a point on the left edge of
\* the first button, and the window's corner.
MousePoints ==
    {<<ButtonRect(k)[1] + 1, ButtonRect(k)[2] + 1>> : k \in Btns}
    \cup {<<ButtonRect(0)[1], ButtonRect(0)[2] + 1>>, <<0, 0>>}

\* The mouse of a frame: pygame.mouse.get_pos(), and whether the window has
\* the focus and the left button is held.
Mice == [pos : MousePoints, held : BOOLEAN]

mouse_is_over(k, mouse) ==
    /\ ButtonRect(k)[1] < mouse.pos[1]
    /\ mouse.pos[1] < ButtonRect(k)[1] + ButtonRect(k)[3]
    /\ ButtonRect(k)[2] < mouse.pos[2]
    /\ mouse.pos[2] < ButtonRect(k)[2] + ButtonRect(k)[4]

is_pressed(k, mouse) == mouse.held /\ mouse_is_over(k, mouse)

\* The condition of Button.update with the test of self.enabled left out.
ButtonFiresIgnoringEnabled(w, k, mouse) ==
    w.is_down[k] /\ ~is_pressed(k, mouse)

\* The condition under which Button.update calls onclick.
ButtonFires(w, k, mouse) ==
    w.buttons[k] /\ (w.is_down[k] /\ ~is_pressed(k, mouse))

\* Button.update of button k; an exception raised by an earlier button of
\* the loop has already left update().
Button_update(w, k, mouse, n, now) ==
    IF w.raised # "none" THEN w
    ELSE LET w1 == IF ButtonFires(w, k, mouse)
                   THEN [onclick(k, w, n, now) EXCEPT
                            !.clicked = Append(w.clicked, k)]
                   ELSE w
         IN  IF w1.raised # "none" THEN w1
             ELSE [w1 EXCEPT !.is_down[k] = is_pressed(k, mouse)]

\* for btn in self.buttons: btn.update()
RECURSIVE UpdateButtons(_, _, _, _, _)
UpdateButtons(w, k, mouse, n, now) ==
    IF k > 3 THEN w
    ELSE UpdateButtons(Button_update(w, k, mouse, n, now), k + 1, mouse, n, now)

\* The test of the end left out: the automatic advance always steps.
AutoMayStepAlways(idx, n) == TRUE

\* "it's not the end": the automatic advance may step.
AutoMayStep(idx, n) == IsNone(idx) \/ Val(idx) < n - 1

\* The automatic-advance branch of ReplayWindow.update.
AutoAdvance(w, auto, n, cur_time) ==
    IF w.raised # "none" \/ IsNone(auto) THEN w
    ELSE IF cur_time - w.last_advance > Val(auto)
         THEN IF AutoMayStep(w.action_index, n)
              THEN [go_forwards(w, n, cur_time) EXCEPT
                       !.auto = "step", !.auto_from = w.action_index]
              ELSE [w EXCEPT !.quit = TRUE, !.auto = "quit"]
         ELSE w

\* ReplayWindow.update: a QUIT event ends the program before anything else.
update(w, quit_event, mouse, auto, n, now) ==
    IF quit_event THEN [w EXCEPT !.quit = TRUE]
    ELSE AutoAdvance(UpdateButtons(w, 0, mouse, n, now), auto, n, now)

\* ReplayWindow.draw raises IndexError when draw_turn_info reads actions[-1]
\* of an empty list, or when actions[action_index] is out of Python's range.
DrawRaises(idx, n) ==
    \/ n = 0
    \/ ~IsNone(idx) /\ ~(Val(idx) >= -n /\ Val(idx) < n)

\* draw: only reads the window (actions[action_index] for a position,
\* actions[-1] in draw_turn_info); an index error ends it.
draw(w, n) ==
    IF DrawRaises(w.action_index, n) THEN [w EXCEPT !.raised = "IndexError"]
    ELSE w

\* main: "if not history.num_turns(chess.WHITE)" with the negation lost.
HistoryIsNotEmpty(h) == num_turns(h, WHITE) # 0

\* main: "if not history.num_turns(chess.WHITE)".
HistoryIsEmpty(h) == num_turns(h, WHITE) = 0

\* ------------------------------------------------------------ state machine
N == Len(actions)

\* The window's fields as the record the operations work on.
Win ==
    [actions |-> actions,
     action_index |-> action_index, buttons |-> buttons, is_down |-> is_down,
     last_advance |-> last_advance, raised |-> "none", quit |-> FALSE,
     clicked |-> <<>>, auto |-> "none", auto_from |-> None]

\* The navigation state a caller observes: the position and the four flags.
Nav(w) == [action_index |-> w.action_index, buttons |-> w.buttons]

NoNav == [action_index |-> None, buttons |-> [k \in Btns |-> TRUE]]

NoTrace ==
    [call |-> "none", before |-> NoNav, prev_call |-> "none",
     before_prev |-> NoNav, clicked |-> <<>>, auto |-> "none",
     auto_from |-> None, manual_at |-> None]

NoProbe == [op |-> "none"]

Intervals == {None} \cup {At(ms) : ms \in 0..MaxInterval}

InitFields ==
    /\ actions = <<>>
    /\ action_index = None
    /\ buttons = [k \in Btns |-> TRUE]
    /\ is_down = [k \in Btns |-> FALSE]
    /\ last_advance = 0
    /\ ticks = 0
    /\ raised = "none"
    /\ trace = NoTrace
    /\ probe = NoProbe

\* The script is started: main() has parsed its arguments.
Init ==
    /\ pc = "load"
    /\ automatic_advance \in Intervals
    /\ resource \in Resources
    /\ history = EmptyHistory
    /\ InitFields

\* A caller is about to construct a ReplayWindow directly.
InitAPI ==
    /\ pc = "construct"
    /\ automatic_advance = None
    /\ resource = NoResource
    /\ history \in Histories
    /\ InitFields

\* Write the record w back to the window's fields.
Store(w) ==
    /\ actions' = w.actions
    /\ action_index' = w.action_index
    /\ buttons' = w.buttons
    /\ is_down' = w.is_down
    /\ last_advance' = w.last_advance
    /\ raised' = w.raised

\* main(): load the history; an exception the loader lets out ends main.
\* Once read, the file plays no further part: only what the loader returned
\* is kept.
Load ==
    /\ pc = "load"
    /\ LET r == load_history(resource)
       IN  /\ history' = r.history
           /\ raised' = r.raised
           /\ pc' = IF r.raised # "none" THEN "crashed" ELSE "main"
           /\ resource' =
                IF r.returned = "history"
                THEN Resource("loaded", "none", "ok", EmptyHistory, <<>>)
                ELSE [resource EXCEPT !.state = r.returned]
    /\ trace' = [trace EXCEPT !.call = "load"]
    /\ UNCHANGED <<automatic_advance, actions, action_index, buttons, is_down,
                   last_advance, ticks, probe>>

\* main(): refuse an empty history, else go on to construct the window;
\* history.num_turns on None raises AttributeError.
main ==
    /\ pc = "main"
    /\ pc' = IF resource.state = "None" THEN "crashed"
             ELSE IF HistoryIsEmpty(history) THEN "quit" ELSE "construct"
    /\ raised' = IF resource.state = "None" THEN "AttributeError" ELSE "none"
    /\ trace' = [trace EXCEPT !.call = "main"]
    /\ UNCHANGED <<history, automatic_advance, actions, action_index, buttons,
                   is_down, last_advance, ticks, resource, probe>>

\* ReplayWindow.__init__: build the actions, create the four buttons, and
\* finish with go_to_beginning().
Construct ==
    /\ pc = "construct"
    /\ Store(go_to_beginning([Win EXCEPT !.actions = BuildActions(history),
                                         !.last_advance = ticks]))
    /\ pc' = "update"
    /\ trace' = [NoTrace EXCEPT !.call = "init"]
    /\ UNCHANGED <<history, automatic_advance, ticks, resource, probe>>

\* One window.update() of the host loop, at a later time (no later than
\* horizon), with the events and the mouse of that frame.
Frame(quit_events, mice, horizon) ==
    /\ pc = "update"
    /\ \E dt \in 1..MaxDt, quit_event \in quit_events, mouse \in mice :
        /\ ticks + dt <= horizon
        /\ \E now \in {ticks + dt} :
           \E w \in {update(Win, quit_event, mouse, automatic_advance, N, now)} :
               /\ Store(w)
               /\ ticks' = now
               /\ pc' = IF w.raised # "none" THEN "crashed"
                        ELSE IF w.quit THEN "quit" ELSE "draw"
               /\ trace' = [NoTrace EXCEPT
                     !.call = "update",
                     !.clicked = w.clicked,
                     !.auto = w.auto,
                     !.auto_from = w.auto_from,
                     !.manual_at = IF w.clicked # <<>> THEN At(now)
                                   ELSE trace.manual_at]
    /\ UNCHANGED <<history, automatic_advance, resource, probe>>

Update == Frame(BOOLEAN, Mice, MaxTime)

\* One window.draw() of the host loop.
Draw ==
    /\ pc = "draw"
    /\ \E w \in {draw(Win, N)} :
           /\ Store(w)
           /\ pc' = IF w.raised # "none" THEN "crashed" ELSE "update"
    /\ trace' = [trace EXCEPT !.call = "draw", !.before = Nav(Win)]
    /\ UNCHANGED <<history, automatic_advance, ticks, resource, probe>>

\* A direct call of one of the four methods on a constructed window.
Call(name, w) ==
    /\ pc = "update"
    /\ Store(w)
    /\ trace' = [NoTrace EXCEPT
          !.call = name, !.before = Nav(Win),
          !.prev_call = trace.call, !.before_prev = trace.before]
    /\ UNCHANGED <<pc, history, automatic_advance, ticks, resource, probe>>

CallGoToBeginning == Call("go_to_beginning", go_to_beginning(Win))

CallGoToEnd == Call("go_to_end", go_to_end(Win, N))

CallGoForwards ==
    /\ IF IsNone(action_index) THEN TRUE ELSE Val(action_index) < N + MaxOver
    /\ Call("go_forwards", go_forwards(Win, N, ticks))

CallGoBackwards ==
    /\ IF IsNone(action_index) THEN TRUE ELSE Val(action_index) > -MaxOver
    /\ Call("go_backwards", go_backwards(Win))

Next == Load \/ main \/ Construct \/ Update \/ Draw

\* The script: main(), the constructor and the host loop.
Spec == Init /\ [][Next]_vars

NextAPI ==
    Construct \/ CallGoToBeginning \/ CallGoToEnd \/ CallGoForwards
    \/ CallGoBackwards

\* The class used directly: the constructor, then any sequence of calls.
SpecAPI == InitAPI /\ [][NextAPI]_vars

\* ------------------------------------------- the coordinate mapper, probed
\* Screen coordinates that are probed: the first and the last pixel of every
\* tile column / row of the window, and of MaxOff tiles around it.
ProbedCoords ==
    {c * square_size + o : c \in (-MaxOff)..(8 + MaxOff), o \in {0, square_size - 1}}

\* A window whose mapper methods are about to be called; self.perspective
\* is an argument of each probe.
InitCoords ==
    /\ pc = "coords"
    /\ automatic_advance = None
    /\ resource = NoResource
    /\ history = EmptyHistory
    /\ actions = <<>>
    /\ action_index = None
    /\ buttons = [k \in Btns |-> TRUE]
    /\ is_down = [k \in Btns |-> FALSE]
    /\ last_advance = 0
    /\ ticks = 0
    /\ raised = "none"
    /\ trace = NoTrace
    /\ probe = NoProbe

WindowUnchanged ==
    UNCHANGED <<pc, history, automatic_advance, actions, action_index, buttons,
                is_down, last_advance, ticks, raised, trace, resource>>

\* square_to_coords(square) under a perspective.
ProbeSquareToCoords ==
    /\ pc = "coords"
    /\ \E sq \in Squares, p \in Colors :
          probe' = [op |-> "square_to_coords", perspective |-> p, square |-> sq,
                    xy |-> square_to_coords(sq, p), result |-> sq]
    /\ WindowUnchanged

\* coords_to_square(x, y) under a perspective.
ProbeCoordsToSquare ==
    /\ pc = "coords"
    /\ \E x \in ProbedCoords, y \in ProbedCoords, p \in Colors :
          probe' = [op |-> "coords_to_square", perspective |-> p, square |-> 0,
                    xy |-> <<x, y>>, result |-> coords_to_square(x, y, p)]
    /\ WindowUnchanged

\* coords_to_square(*square_to_coords(square)) under one perspective.
ProbeRoundTrip ==
    /\ pc = "coords"
    /\ \E sq \in Squares, p \in Colors :
          LET xy == square_to_coords(sq, p)
          IN  probe' = [op |-> "round_trip", perspective |-> p, square |-> sq,
                        xy |-> xy, result |-> coords_to_square(xy[1], xy[2], p)]
    /\ WindowUnchanged

NextCoords == ProbeSquareToCoords \/ ProbeCoordsToSquare \/ ProbeRoundTrip

\* The coordinate mapper called with every square, sampled screen points and
\* both perspectives.
SpecCoords == InitCoords /\ [][NextCoords]_vars

\* Histories main lets through, every move of which was taken (update and
\* go_forwards read the actions' number only, not the moves).
LiveHistories ==
    {h \in Histories :
        /\ ~HistoryIsEmpty(h)
        /\ \A c \in Colors : \A i \in DOMAIN h.moves[c] : h.moves[c][i] = "taken"}

\* The replay left to itself: --automatic_advance given, a history main let
\* through, no QUIT event and a mouse that is never pressed.
InitLive ==
    /\ pc = "construct"
    /\ automatic_advance \in Intervals \ {None}
    /\ resource = NoResource
    /\ history \in LiveHistories
    /\ InitFields

\* Time enough for the longest sequence to be played to its end: each of
\* its steps, and the final quit, happens in the first frame that finds the
\* interval exceeded.
LiveHorizon == (2 * MaxTurns + 1) * (MaxInterval + MaxDt) + MaxDt

\* The mouse rests on the window's corner or hovers over the '>' button.
IdleMice ==
    {m \in Mice :
        ~m.held /\ m.pos \in {<<0, 0>>, <<ButtonRect(2)[1] + 1, ButtonRect(2)[2] + 1>>}}

LiveUpdate == Frame({FALSE}, IdleMice, LiveHorizon)

NextLive == Construct \/ LiveUpdate \/ Draw

\* "while True: window.update(); window.draw()": the loop keeps running.
SpecLive ==
    InitLive /\ [][NextLive]_vars /\ WF_vars(LiveUpdate) /\ WF_vars(Draw)

\* pgn_loader on its own: a file that opens and holds a game is loaded once.
InitPgn ==
    /\ pc = "pgn"
    /\ automatic_advance = None
    /\ resource \in {Resource("file", "pgn", "ok", EmptyHistory, g) : g \in Games}
    /\ history = EmptyHistory
    /\ InitFields

PgnLoad ==
    /\ pc = "pgn"
    /\ pc' = "loaded"
    /\ probe' = [op |-> "pgn_loader", game |-> resource.game,
                 result |-> pgn_history(resource.game)]
    /\ history' = AsHistory(pgn_history(resource.game))
    /\ UNCHANGED <<automatic_advance, actions, action_index, buttons, is_down,
                   last_advance, ticks, raised, trace, resource>>

NextPgn == PgnLoad

SpecPgn == InitPgn /\ [][NextPgn]_vars

\* ------------------------------------------------------------------ claims
\* The window exists: the constructor has returned.
Constructed ==
    \/ pc \in {"update", "draw"}
    \/ pc \in {"quit", "crashed"} /\ trace.call \notin {"load", "main"}

InRange(idx) == IsNone(idx) \/ (Val(idx) >= 0 /\ Val(idx) <= N - 1)

\* C1: with N >= 1 actions and transitions triggered only by the buttons
\* and the automatic advance, action_index is None or in 0..N-1 in every
\* reachable state, and no frame raises (actions[action_index] is in range).
C1_IndexInRange ==
    (Constructed /\ N >= 1) =>
        /\ InRange(action_index)
        /\ raised = "none"
        /\ pc # "crashed"

\* C1 witness: the end of a sequence of two or more actions has been reached
\* through the UI and is about to be drawn, the forward button disabled.
C1_Witness ==
    /\ pc = "draw"
    /\ N >= 2
    /\ action_index = At(N - 1)
    /\ ~buttons[2]

\* C2: after construction and after each transition the flags agree with the
\* position: forward / to-end are disabled exactly at At(N-1) or when N = 0,
\* backward / to-start exactly at BeforeStart.
C2_FlagsConsistent ==
    Constructed =>
        /\ ~buttons[2] <=> (action_index = At(N - 1) \/ N = 0)
        /\ ~buttons[3] <=> (action_index = At(N - 1) \/ N = 0)
        /\ ~buttons[1] <=> IsNone(action_index)
        /\ ~buttons[0] <=> IsNone(action_index)

\* C3: go_forwards is total (stated for N >= 1, where At(0) exists): from
\* BeforeStart to At(0), from At(i) with i+1 <= N-1 to At(i+1), and at
\* At(N-1) a no-op; the position never becomes N or larger.
C3_StepForwardTotal ==
    (trace.call = "go_forwards" /\ N >= 1 /\ InRange(trace.before.action_index)) =>
        /\ raised = "none"
        /\ IsNone(trace.before.action_index) => action_index = At(0)
        /\ ~IsNone(trace.before.action_index) =>
             action_index =
                IF Val(trace.before.action_index) + 1 <= N - 1
                THEN At(Val(trace.before.action_index) + 1)
                ELSE At(N - 1)
        /\ Val(action_index) < N

\* C4: go_backwards is total and never fails: At(0) to BeforeStart, At(i)
\* with i > 0 to At(i-1), and at BeforeStart a no-op that raises nothing.
C4_StepBackwardTotal ==
    (trace.call = "go_backwards" /\ InRange(trace.before.action_index)) =>
        /\ raised = "none"
        /\ IF IsNone(trace.before.action_index)
           THEN Nav(Win) = trace.before
           ELSE action_index =
                  IF Val(trace.before.action_index) = 0 THEN None
                  ELSE At(Val(trace.before.action_index) - 1)

\* C5: from a state other than At(N-1), go_forwards then go_backwards gives
\* back the position and the four flags; go_backwards at BeforeStart and
\* go_forwards at At(N-1) leave the state as it was before the call.
C5_RoundTrip ==
    /\ (/\ trace.call = "go_backwards" /\ trace.prev_call = "go_forwards"
        /\ InRange(trace.before_prev.action_index)
        /\ trace.before_prev.action_index # At(N - 1))
       => Nav(Win) = trace.before_prev
    /\ (trace.call = "go_backwards" /\ IsNone(trace.before.action_index))
       => Nav(Win) = trace.before
    /\ (trace.call = "go_forwards" /\ N >= 1
        /\ trace.before.action_index = At(N - 1))
       => Nav(Win) = trace.before

\* C6: go_to_beginning then go_to_end lands on At(N-1) when N > 0, and for
\* N = 0 go_to_end is a no-op that leaves BeforeStart.
C6_StartThenEnd ==
    (trace.call = "go_to_end" /\ trace.prev_call = "go_to_beginning") =>
        /\ N > 0 => action_index = At(N - 1)
        /\ N = 0 => (IsNone(action_index) /\ Nav(Win) = trace.before)

\* C7: when white has no recorded turn, main ends before a ReplayWindow is
\* constructed and before any update or draw.
C7_EmptyRefused ==
    (resource.state = "loaded" /\ num_turns(history, WHITE) = 0) =>
        /\ pc \in {"main", "quit"}
        /\ trace.call \in {"load", "main"}
        /\ actions = <<>>

\* C7 witness: main has ended on an empty history.
C7_Witness ==
    /\ resource.state = "loaded"
    /\ num_turns(history, WHITE) = 0
    /\ pc = "quit"
    /\ trace.call = "main"

\* C8: the automatic advance steps only from BeforeStart or At(i), i < N-1;
\* at At(N-1) it quits instead of stepping; an automatic step never leaves
\* the position past N-1.
C8_AutoAdvanceBounded ==
    (Constructed /\ trace.call = "update") =>
        /\ trace.auto = "step" =>
             /\ (IsNone(trace.auto_from) \/ Val(trace.auto_from) < N - 1)
             /\ Val(action_index) <= N - 1
        /\ trace.auto = "quit" => (pc = "quit" /\ action_index = At(N - 1))

\* C9: after a manual transition at time t the automatic advance neither
\* steps nor quits before a full interval has elapsed since t.
C9_ManualCancelsTimer ==
    (/\ Constructed /\ trace.call = "update" /\ trace.auto # "none"
     /\ ~IsNone(trace.manual_at))
    => ticks - Val(trace.manual_at) > Val(automatic_advance)

\* Turns of the history with a recorded event of either kind.
TurnsWithEvent(h) ==
    {k \in DOMAIN turns(h) : has_sense(h, turns(h)[k]) \/ has_move(h, turns(h)[k])}

\* Turns of the history with a recorded move (requested, taken or not).
TurnsWithMove(h) ==
    {k \in DOMAIN turns(h) : has_move(h, turns(h)[k])}

ActionsOfTurn(turn) ==
    {i \in DOMAIN actions :
        actions[i].turn_number = turn.turn_number
        /\ actions[i].turn_color = turn.color}

ActionKey(a) == TurnKey(Turn(a.turn_color, a.turn_number))

\* C10 as stated: one action per turn with a recorded event (sense or move),
\* so the length is the number of such turns; actions in turn order.
C10_OnePerEventTurn ==
    Constructed =>
        /\ Len(actions) = Cardinality(TurnsWithEvent(history))
        /\ \A k \in TurnsWithEvent(history) :
             Cardinality(ActionsOfTurn(turns(history)[k])) = 1
        /\ \A i \in 1..(Len(actions) - 1) :
             ActionKey(actions[i]) <= ActionKey(actions[i + 1])

\* C10 amended: one action per turn with a recorded move (a rejected one
\* included), none for a turn without a move, so the length is the number
\* of turns with a move; actions in non-decreasing turn order.
C10_OnePerMoveTurn ==
    Constructed =>
        /\ Len(actions) = Cardinality(TurnsWithMove(history))
        /\ \A k \in DOMAIN turns(history) :
             Cardinality(ActionsOfTurn(turns(history)[k])) =
                IF k \in TurnsWithMove(history) THEN 1 ELSE 0
        /\ \A i \in 1..(Len(actions) - 1) :
             ActionKey(actions[i]) <= ActionKey(actions[i + 1])

\* C10 witness: a built sequence holding a rejected move, from a history
\* whose last turn has no move.
C10_Witness ==
    /\ Constructed
    /\ Len(actions) >= 2
    /\ \E i \in DOMAIN actions : actions[i].taken_move = "rejected"
    /\ Len(turns(history)) > Len(actions)

\* C11: for each square and both perspectives, coords_to_square applied to
\* the coordinates square_to_coords returns gives that square back.
C11_MapperRoundTrip ==
    probe.op = "round_trip" => probe.result = probe.square

OnBoard(xy) ==
    /\ xy[1] >= 0 /\ xy[1] < 8 * square_size
    /\ xy[2] >= 0 /\ xy[2] < 8 * square_size

\* C12: coords_to_square answers a point outside the 8x8 grid with a result
\* that is none of the 64 squares, and any other point with a valid square.
C12_OutOfBoard ==
    probe.op = "coords_to_square" =>
        (probe.result \in Squares <=> OnBoard(probe.xy))

\* C13: square_to_coords puts file f, rank r at x = f*L and y = (7-r)*L for
\* white's perspective, y = r*L for black's; distinct squares get distinct
\* tiles and every tile lies inside the 8L x 8L board.
C13_SquareToCoords ==
    probe.op = "square_to_coords" =>
        LET f == probe.square % 8
            r == probe.square \div 8
        IN  /\ probe.xy[1] = f * square_size
            /\ probe.xy[2] = IF probe.perspective = WHITE
                             THEN (7 - r) * square_size ELSE r * square_size
            /\ probe.xy[1] >= 0 /\ probe.xy[1] + square_size <= 8 * square_size
            /\ probe.xy[2] >= 0 /\ probe.xy[2] + square_size <= 8 * square_size
            /\ \A other \in Squares \ {probe.square} :
                 square_to_coords(other, probe.perspective) # probe.xy

\* C13 witness: the top-left tile under white's perspective is a8.
C13_Witness ==
    /\ probe.op = "square_to_coords"
    /\ probe.perspective = WHITE
    /\ probe.square = 56
    /\ probe.xy = <<0, 0>>

\* C14: when the history file cannot be opened, loading ends the run with an
\* error of its own (the error of open(), not the one a file without a game
\* gives): main is never entered with what the loader returned, and no
\* window is built.
C14_ResourceUnavailable ==
    /\ (resource.readable = "unopenable" /\ pc # "load") =>
            /\ pc = "crashed"
            /\ raised = "OSError"
            /\ trace.call = "load"
            /\ actions = <<>>
    /\ (resource.readable = "empty" /\ pc # "load") => raised # "OSError"

\* C15: the actions are the sequence the constructor built, whatever
\* go_to_beginning, go_to_end, go_forwards, go_backwards, update and draw
\* have done since; and draw leaves the position and the four enabled flags
\* as it found them.
C15_ActionsFixed ==
    Constructed =>
        /\ actions = BuildActions(history)
        /\ trace.call = "draw" => Nav(Win) = trace.before

\* C15 witness: a draw after a button moved the position along a sequence
\* of two actions or more.
C15_Witness ==
    /\ trace.call = "draw"
    /\ trace.clicked # <<>>
    /\ N >= 2
    /\ ~IsNone(action_index)

\* Positions of the actions of a phase that belong to a turn.
PhaseOfTurn(phase, turn) ==
    {i \in ActionsOfTurn(turn) : actions[i].phase = phase}

\* C16 as stated: for each turn of the history with a sense, the actions
\* hold a sense action of that turn, placed immediately before the move
\* action of the same turn.
C16_SenseBeforeMove ==
    Constructed =>
        \A k \in DOMAIN turns(history) :
            has_sense(history, turns(history)[k]) =>
                \E i \in PhaseOfTurn("sense", turns(history)[k]) :
                    has_move(history, turns(history)[k]) =>
                        (i + 1) \in PhaseOfTurn("move", turns(history)[k])

\* C16 amended: no sense action is built, also not for a turn with a sense:
\* every action is a move action, so the sense branch of draw is never taken.
C16_NoSenseActions ==
    Constructed =>
        /\ \A i \in DOMAIN actions : actions[i].phase = "move"
        /\ \A k \in DOMAIN turns(history) :
             PhaseOfTurn("sense", turns(history)[k]) = {}

\* C16 witness: a built sequence for a history with two turns or more that
\* have both a sense and a move.
C16_Witness ==
    /\ Constructed
    /\ N >= 2
    /\ \A k \in DOMAIN turns(history) :
         has_sense(history, turns(history)[k])
         /\ has_move(history, turns(history)[k])

\* The colour that plays the k-th move of a mainline, and the number of
\* that colour's turn.
ColorOfPly(k) == IF k % 2 = 1 THEN WHITE ELSE BLACK

TurnOfPly(k) == (k + 1) \div 2

\* C17: in the history pgn_loader returns, a taken move comes with a
\* requested move and the two are the same move; capture_square is set
\* exactly for a capture and is then the move's to_square; the k-th move of
\* the mainline is stored for white if k is odd, for black if even, in
\* mainline order, with one record and one fen (of the position after the
\* move) per move.
C17_PgnRecords ==
    probe.op = "pgn_loader" =>
        LET h == probe.result
            g == probe.game
        IN  /\ \A c \in Colors :
                 /\ Len(h.taken_moves[c]) = Len(h.requested_moves[c])
                 /\ Len(h.capture_squares[c]) = Len(h.requested_moves[c])
                 /\ Len(h.fens_after_move[c]) = Len(h.requested_moves[c])
                 /\ \A i \in 1..Len(h.taken_moves[c]) :
                      ~IsNone(h.taken_moves[c][i]) =>
                          /\ ~IsNone(h.requested_moves[c][i])
                          /\ h.requested_moves[c][i] = h.taken_moves[c][i]
            /\ Len(h.requested_moves[WHITE]) + Len(h.requested_moves[BLACK])
                 = Len(g)
            /\ \A k \in 1..Len(g) :
                 LET c == ColorOfPly(k)
                     i == TurnOfPly(k)
                 IN  /\ i <= Len(h.requested_moves[c])
                     /\ h.requested_moves[c][i] = At(g[k])
                     /\ h.taken_moves[c][i] = At(g[k])
                     /\ ~IsNone(h.capture_squares[c][i]) <=> g[k].capture
                     /\ g[k].capture =>
                            h.capture_squares[c][i] = At(g[k].to_square)
                     /\ h.fens_after_move[c][i] = SubSeq(g, 1, k)

\* C17 witness: a loaded mainline of three moves or more with a capture and
\* a move that is none.
C17_Witness ==
    /\ probe.op = "pgn_loader"
    /\ Len(probe.game) >= 3
    /\ \E k \in 1..Len(probe.game) : probe.game[k].capture
    /\ \E k \in 1..Len(probe.game) : ~probe.game[k].capture
    /\ Len(probe.result.requested_moves[BLACK]) >= 1

\* A change of position that goes one step forward: from before the start
\* to the first action, or from an action to the next one.
OneStepForward ==
    action_index' # action_index =>
        /\ action_index' = At(IF IsNone(action_index) THEN 0
                              ELSE Val(action_index) + 1)
        /\ Val(action_index') <= N - 1

\* C18: with the automatic advance on, one action or more, time going on
\* and nobody touching the buttons, the replay goes from before the start
\* through the actions 0, 1, ..., N-1 in that order, each once and never
\* backwards, and then quits: it quits at the last action only, and it does
\* quit.
C18_AutoReplay ==
    /\ [][N >= 1 => OneStepForward]_vars
    /\ []((N >= 1 /\ pc \in {"quit", "crashed"}) =>
            (pc = "quit" /\ action_index = At(N - 1)))
    /\ ((pc = "update" /\ N >= 1) ~> (pc = "quit"))

\* C18 witness: the automatic advance has quit at the last of three
\* actions or more.
C18_Witness ==
    /\ pc = "quit"
    /\ trace.auto = "quit"
    /\ trace.clicked = <<>>
    /\ N >= 3
    /\ action_index = At(N - 1)

\* C19: in a frame, a button's onclick runs only if the button was down at
\* the frame before, is not pressed now and is enabled; so a disabled
\* button never fires, a held press fires nothing until it is released and
\* a press-release fires once; and the buttons of one frame fire one
\* transition at most.
C19_ButtonFiring ==
    [][pc = "update" =>
          /\ \A i \in DOMAIN trace'.clicked :
               /\ buttons[trace'.clicked[i]]
               /\ is_down[trace'.clicked[i]]
               /\ ~is_down'[trace'.clicked[i]]
          /\ Len(trace'.clicked) <= 1]_vars

\* C19 witness: the release of the '>>' button has run go_to_end on a
\* sequence of two actions or more, and no button is down any more.
C19_Witness ==
    /\ trace.call = "update"
    /\ trace.clicked = <<3>>
    /\ N >= 2
    /\ action_index = At(N - 1)
    /\ \A k \in Btns : ~is_down[k]

====
